---- MODULE Spec2Model ----
(***************************************************************************)
(* Model of the location-flag browser extension: the content script        *)
(* (src/content.js: cache, request queue / rate limiter, DOM annotator)    *)
(* and the page-context bridge (src/pageScript.js).                        *)
(*                                                                         *)
(* Time.  The clock `now` counts ticks of 100 ms since an arbitrary origin *)
(* (every delay of the source is a multiple of 100 ms; Ms(x) converts).    *)
(* One step of the model is one task of the browser's event loop together  *)
(* with the microtasks (promise continuations) it triggers.  A timer fires *)
(* at its deadline: the clock does not pass a due timer, and it does not   *)
(* advance while a posted window message or a storage write is waiting.    *)
(*                                                                         *)
(* Environment.  During the first HostSeconds the host page adds nodes, up *)
(* to NumContainers containers and MaxOthers other nodes, one or several   *)
(* in a task, changes child lists in other ways (a removal, a node added   *)
(* to <head>), and changes the URL up to MaxNavigations times; the         *)
(* injected script loads in that time or never, and is assumed to listen   *)
(* by the time the first message is posted; a fetch of the bridge ends     *)
(* after one of FetchLatencies or never, with any of Outcomes; a           *)
(* storage.set resolves or rejects.                                        *)
(*                                                                         *)
(* Specifications.  Spec: the program once init() has run on an empty      *)
(* store, for MaxSeconds.  SpecLive: the program from the first line of    *)
(* init(), on an empty store or on one with live entries, until every      *)
(* request has had the time to settle.  SpecCache: the persistent cache   *)
(* from the first line of init(), on any stored blob, past the first       *)
(* interval save.                                                          *)
(* SpecCachePuts: the same, with the handle "__proto__" among those put    *)
(* and a store that accepts every write.                                   *)
(* SpecFlag: one call of getCountryFlag (countryFlags.js).                 *)
(***************************************************************************)
EXTENDS Integers, Sequences, FiniteSets, Bags, TLC

VARIABLES
  now,                 \* Date.now(), in ticks
  locationCache,       \* content.js:2   Map handle -> location or Null
  saveCacheTimeout,    \* content.js:64  saveCache.timeout is set
  storage,             \* chrome.storage.local[CACHE_KEY]
  storageWrites,       \* storage.set calls in progress (saveCache awaiting)
  requestQueue,        \* content.js:7   ids of queued getUserLocation calls
  isProcessingQueue,   \* content.js:8
  lastRequestTime,     \* content.js:9
  activeRequests,      \* content.js:12
  rateLimitResetTime,  \* content.js:13  epoch seconds, 0 = not limited
  timers,              \* bag of pending setTimeout / setInterval callbacks
  requests,            \* every getUserLocation call that was queued, by id
  messages,            \* window.postMessage tasks not yet delivered (FIFO)
  fetches,             \* bridge: the __fetchLocation handlers, by requestId
  present,             \* containers currently in the document
  tag,                 \* container.dataset.flagAdded
  flags,               \* number of [data-twitter-flag] spans under a parent
  storageGet,          \* content.js:21  the storage.get loadCache awaits
  lookup,              \* a call of getCountryFlag: its argument and result
  href,                \* location.href: the number of URL changes so far
  lastUrl,             \* content.js:412 the URL the navigation observer saw
  others,              \* nodes in the document that are no containers
  pageScript           \* content.js:74  the injected <script>: none, loading, removed

vars == <<now, locationCache, saveCacheTimeout, storage, storageWrites,
          requestQueue, isProcessingQueue, lastRequestTime, activeRequests,
          rateLimitResetTime, timers, requests, messages, fetches, present,
          tag, flags, storageGet, lookup, href, lastUrl, others,
          pageScript>>

----------------------------------------------------------------------------
(* Bounds of the model *)

NumContainers == 3     \* containers the host page can show
StartSeconds == 100    \* clock value (s) when init() has run
MaxSeconds == 12       \* the clock stops advancing this long after init()
HostSeconds == 2       \* the host page adds containers this long after init()
RateLimitWindow == 3   \* seconds ahead a 429's x-rate-limit-reset lies
MaxOthers == 1         \* nodes other than containers the host page adds
MaxNavigations == 1    \* URL changes of the host page

(* Time units *)
Ms(x) == x \div 100
Seconds(t) == t \div Ms(1000)

(* Program constants *)
MIN_REQUEST_INTERVAL == Ms(2000)
MAX_CONCURRENT_REQUESTS == 2
REQUEST_TIMEOUT == Ms(10000)
RECHECK_DELAY == Ms(200)
RATE_LIMIT_POLL_MAX == Ms(60000)
SAVE_DEBOUNCE == Ms(5000)
SAVE_INTERVAL == Ms(30000)
SCAN_DEBOUNCE == Ms(500)
INITIAL_SCAN_DELAY == Ms(2000)
NAV_SCAN_DELAY == Ms(2000)

StartTime == StartSeconds * Ms(1000)
Horizon == StartTime + MaxSeconds * Ms(1000)

Null == "<null>"

Min(a, b) == IF a < b THEN a ELSE b

----------------------------------------------------------------------------
(* The host page's markup.  Container c is selected by processUsernames;   *)
(* extractUsername(c) is its handle; AnchorParent(c) is the parent element *)
(* of the profile link addFlagToUsername finds in it.  Containers 1 and 2  *)
(* are a tweet article and the User-Name block nested in it: same handle,  *)
(* same anchor.                                                            *)

Containers == 1..NumContainers
extractUsername(c) == IF c <= 2 THEN "alice" ELSE "bob"
AnchorParent(c) == IF c <= 2 THEN 1 ELSE c
Parents == {AnchorParent(c) : c \in Containers}

----------------------------------------------------------------------------
(* Flag lookup (countryFlags.js, src/unnamed/part_000:91-172).             *)
(* A JavaScript string is the sequence of its characters; the value null   *)
(* is the one-element sequence JsNull, which is no string.                 *)

JsNull == <<Null>>

France == <<"F", "r", "a", "n", "c", "e">>
Japan == <<"J", "a", "p", "a", "n">>
Iran == <<"I", "r", "a", "n">>
Iraq == <<"I", "r", "a", "q">>
Atlantis == <<"A", "t", "l", "a", "n", "t", "i", "s">>

(* The strings this model's API answers carry *)
JsValue(location) ==
  IF location = Null THEN JsNull
  ELSE IF location = "France" THEN France
  ELSE IF location = "Japan" THEN Japan
  ELSE Atlantis

(* Four of the table's entries, in the table's order; a flag glyph is      *)
(* written as its two-letter code.                                         *)
COUNTRY_FLAGS ==
  << [country |-> France, flag |-> "FR"],
     [country |-> Iran, flag |-> "IR"],
     [country |-> Iraq, flag |-> "IQ"],
     [country |-> Japan, flag |-> "JP"] >>

(* COUNTRY_FLAGS is an object literal: besides its own properties it has   *)
(* those of Object.prototype, which are functions.  Three of them:         *)
ObjectPrototype ==
  << [name |-> <<"c", "o", "n", "s", "t", "r", "u", "c", "t", "o", "r">>,
      value |-> "<function Object>"],
     [name |-> <<"t", "o", "S", "t", "r", "i", "n", "g">>,
      value |-> "<function toString>"],
     [name |-> <<"v", "a", "l", "u", "e", "O", "f">>,
      value |-> "<function valueOf>"] >>

UpperCase == <<"A", "B", "C", "D", "E", "F", "G", "H", "I", "J", "K", "L", "M",
               "N", "O", "P", "Q", "R", "S", "T", "U", "V", "W", "X", "Y", "Z">>
LowerCase == <<"a", "b", "c", "d", "e", "f", "g", "h", "i", "j", "k", "l", "m",
               "n", "o", "p", "q", "r", "s", "t", "u", "v", "w", "x", "y", "z">>
WhiteSpace == {" ", "\t", "\n"}

IndexOf(seq, c) == CHOOSE i \in 1..Len(seq) : seq[i] = c
IsUpper(c) == \E i \in 1..Len(UpperCase) : UpperCase[i] = c
IsLower(c) == \E i \in 1..Len(LowerCase) : LowerCase[i] = c

(* String.prototype.toLowerCase *)
toLowerCase(str) ==
  [i \in 1..Len(str) |->
     IF IsUpper(str[i]) THEN LowerCase[IndexOf(UpperCase, str[i])] ELSE str[i]]

(* String.prototype.trim *)
RECURSIVE trimStart(_)
trimStart(str) ==
  IF str # <<>> /\ Head(str) \in WhiteSpace THEN trimStart(Tail(str)) ELSE str

RECURSIVE trimEnd(_)
trimEnd(str) ==
  IF str # <<>> /\ str[Len(str)] \in WhiteSpace
  THEN trimEnd(SubSeq(str, 1, Len(str) - 1)) ELSE str

trim(str) == trimEnd(trimStart(str))

(* obj[key] on COUNTRY_FLAGS: an own property, else an inherited one, else *)
(* undefined (written Null: both are falsy and the result is only tested   *)
(* for truth, part_000:159).                                               *)
RECURSIVE Find(_, _, _)
Find(entries, i, key) ==
  IF i > Len(entries) THEN 0
  ELSE IF entries[i][1] = key THEN i
  ELSE Find(entries, i + 1, key)

OwnEntries == [i \in 1..Len(COUNTRY_FLAGS) |->
                 <<COUNTRY_FLAGS[i].country, COUNTRY_FLAGS[i].flag>>]
InheritedEntries == [i \in 1..Len(ObjectPrototype) |->
                       <<ObjectPrototype[i].name, ObjectPrototype[i].value>>]

GetProperty(key) ==
  IF Find(OwnEntries, 1, key) # 0 THEN OwnEntries[Find(OwnEntries, 1, key)][2]
  ELSE IF Find(InheritedEntries, 1, key) # 0
  THEN InheritedEntries[Find(InheritedEntries, 1, key)][2]
  ELSE Null

(* The loop of part_000:165-169 over Object.entries, from entry i on *)
RECURSIVE MatchIgnoringCase(_, _)
MatchIgnoringCase(i, normalized) ==
  IF i > Len(OwnEntries) THEN Null
  ELSE IF toLowerCase(OwnEntries[i][1]) = toLowerCase(normalized)
  THEN OwnEntries[i][2]
  ELSE MatchIgnoringCase(i + 1, normalized)

getCountryFlag(countryName) ==
  IF countryName = JsNull \/ countryName = <<>> THEN Null
  ELSE IF GetProperty(countryName) # Null THEN GetProperty(countryName)
  ELSE MatchIgnoringCase(1, trim(countryName))

(* No call of getCountryFlag under observation *)
NoLookup == [countryName |-> JsNull, result |-> Null, called |-> FALSE]

----------------------------------------------------------------------------
(* Timers *)

(* kind: the callback; at: the deadline; id: for kind "timeout" the        *)
(* request, for kind "scan" 1 when init() set the timer and 0 when the     *)
(* mutation observer did, else 0.  Kind "navscan" is the processUsernames  *)
(* timer of the navigation observer (content.js:416).                      *)
Timer(kind, at, id) == [kind |-> kind, at |-> at, id |-> id]
Pending == BagToSet(timers)
AddTimer(b, t) == b (+) SetToBag({t})
DelTimer(b, t) == b (-) SetToBag({t})

(* The content script's state as one record, so that the synchronous code  *)
(* of a task can be composed call by call.                                 *)
State ==
  [locationCache |-> locationCache, saveCacheTimeout |-> saveCacheTimeout,
   timers |-> timers, requestQueue |-> requestQueue,
   isProcessingQueue |-> isProcessingQueue,
   lastRequestTime |-> lastRequestTime, activeRequests |-> activeRequests,
   rateLimitResetTime |-> rateLimitResetTime, requests |-> requests,
   messages |-> messages, tag |-> tag, flags |-> flags,
   lastUrl |-> lastUrl, mutated |-> FALSE]

(* The task ends: s, computed once, becomes the next state. *)
Install(s) ==
  \E v \in {s} :
    /\ locationCache' = v.locationCache
    /\ saveCacheTimeout' = v.saveCacheTimeout
    /\ timers' = v.timers
    /\ requestQueue' = v.requestQueue
    /\ isProcessingQueue' = v.isProcessingQueue
    /\ lastRequestTime' = v.lastRequestTime
    /\ activeRequests' = v.activeRequests
    /\ rateLimitResetTime' = v.rateLimitResetTime
    /\ requests' = v.requests
    /\ messages' = v.messages
    /\ tag' = v.tag
    /\ flags' = v.flags
    /\ lastUrl' = v.lastUrl

----------------------------------------------------------------------------
(* Persistent cache: the in-memory map and the debounced save *)

Put(f, k, v) == [x \in (DOMAIN f) \cup {k} |-> IF x = k THEN v ELSE f[x]]

(* The map entry set only on the branch that schedules the persist timer *)
saveCacheEntryUnlessPending(s, username, location) ==
  IF ~s.saveCacheTimeout
  THEN [s EXCEPT !.locationCache = Put(@, username, location),
                 !.saveCacheTimeout = TRUE,
                 !.timers = AddTimer(@, Timer("persist", now + SAVE_DEBOUNCE, 0))]
  ELSE s

(* The persist timer scheduled by every call: the test of line 64 left out *)
saveCacheEntryAlwaysSchedules(s, username, location) ==
  [s EXCEPT !.locationCache = Put(@, username, location),
            !.saveCacheTimeout = TRUE,
            !.timers = AddTimer(@, Timer("persist", now + SAVE_DEBOUNCE, 0))]

(* saveCacheEntry (content.js:61-70) *)
saveCacheEntry(s, username, location) ==
  LET s1 == [s EXCEPT !.locationCache = Put(@, username, location)]
  IN  IF ~s1.saveCacheTimeout
      THEN [s1 EXCEPT !.saveCacheTimeout = TRUE,
                      !.timers = AddTimer(@, Timer("persist", now + SAVE_DEBOUNCE, 0))]
      ELSE s1

----------------------------------------------------------------------------
(* DOM annotator: the part of addFlagToUsername after the await            *)
(* (content.js:266-343).  The link extractUsername matched is inside the   *)
(* container, so the search of lines 279-316 finds it.  Inserting the span *)
(* is a childList mutation with an added node, recorded in `mutated`: the  *)
(* observers are called back once, after the microtasks of the task.       *)

(* The callback of the observer of document.body, on records of which one *)
(* has added nodes (content.js:372-385).                                   *)
scanObserver(s) ==
  [s EXCEPT !.timers = AddTimer(@, Timer("scan", now + SCAN_DEBOUNCE, 0))]

(* The callback of the observer of document, on any change of a child list *)
(* (content.js:413-420): it looks at the URL, never at the records.        *)
navigationObserver(s) ==
  IF href # s.lastUrl
  THEN [s EXCEPT !.lastUrl = href,
                 !.timers = AddTimer(@, Timer("navscan", now + NAV_SCAN_DELAY, 0))]
  ELSE s

(* Nodes were added under document.body: both observers are called back,   *)
(* in the order of their creation (content.js:387, 413).                   *)
observerCallbacks(s) == navigationObserver(scanObserver(s))

(* The mutation records of a task are delivered in one call per observer. *)
(* (The state is bound to v so that it is computed once.)                  *)
NotifyObservers(s) ==
  CHOOSE r \in {IF v.mutated
                THEN observerCallbacks([v EXCEPT !.mutated = FALSE])
                ELSE v : v \in {s}} : TRUE

(* The guard of content.js:319-323 left out. *)
ExistingFlagUnchecked(s, c) == FALSE

(* content.js:319 *)
ExistingFlag(s, c) == s.flags[AnchorParent(c)] > 0

(* content.js:325-341 *)
InsertFlag(s, c) ==
  [s EXCEPT !.flags[AnchorParent(c)] = @ + 1,
            !.tag[c] = "true",
            !.mutated = TRUE]

(* A failed annotation that asks for another scan pass *)
AnnotateFinishRetrying(s, c, location) ==
  IF location = Null \/ getCountryFlag(JsValue(location)) = Null
  THEN [s EXCEPT !.tag[c] = "failed",
                 !.timers = AddTimer(@, Timer("scan", now + SCAN_DEBOUNCE, 0))]
  ELSE IF ExistingFlag(s, c) THEN [s EXCEPT !.tag[c] = "true"]
  ELSE InsertFlag(s, c)

AnnotateFinish(s, c, location) ==
  IF location = Null THEN [s EXCEPT !.tag[c] = "failed"]
  ELSE IF getCountryFlag(JsValue(location)) = Null THEN [s EXCEPT !.tag[c] = "failed"]
  ELSE IF ExistingFlag(s, c) THEN [s EXCEPT !.tag[c] = "true"]
  ELSE InsertFlag(s, c)

----------------------------------------------------------------------------
(* Request queue / rate limiter *)

Message(type, screenName, requestId, location, resetTime) ==
  [type |-> type, screenName |-> screenName, requestId |-> requestId,
   location |-> location, resetTime |-> resetTime]

(* makeLocationRequest, the synchronous executor (content.js:146-183):     *)
(* the message listener, the posted request, the 10 s timer.               *)
makeLocationRequest(s, id) ==
  [s EXCEPT !.requests[id].listening = TRUE,
            !.messages = Append(@, Message("fetchLocation",
                                  s.requests[id].screenName, id, Null, 0)),
            !.timers = AddTimer(@, Timer("timeout", now + REQUEST_TIMEOUT, id))]

(* content.js:123-128 *)
Dispatch(s) ==
  LET id == Head(s.requestQueue)
      s1 == [s EXCEPT !.requestQueue = Tail(@),
                      !.activeRequests = @ + 1,
                      !.lastRequestTime = now,
                      !.requests[id].state = "dispatched",
                      !.requests[id].startedAt = now]
  IN  makeLocationRequest(s1, id)

(* The bound of content.js:114 compared with <= . *)
LoopConditionOffByOne(s) ==
  Len(s.requestQueue) > 0 /\ s.activeRequests <= MAX_CONCURRENT_REQUESTS

(* content.js:114 *)
LoopCondition(s) ==
  Len(s.requestQueue) > 0 /\ s.activeRequests < MAX_CONCURRENT_REQUESTS

(* The wait of content.js:119-121 skipped. *)
NeedsWaitNever(s) == FALSE

(* content.js:115-119 *)
NeedsWait(s) == now - s.lastRequestTime < MIN_REQUEST_INTERVAL

(* The while loop of content.js:114-142, run until it suspends at the      *)
(* await of line 120 (isProcessingQueue stays set) or ends.                *)
RECURSIVE RunLoop(_)
RunLoop(s) ==
  IF LoopCondition(s)
  THEN IF NeedsWait(s)
       THEN [s EXCEPT !.timers = AddTimer(@,
               Timer("interval",
                     now + (MIN_REQUEST_INTERVAL - (now - s.lastRequestTime)), 0))]
       ELSE CHOOSE out \in {RunLoop(s1) : s1 \in {Dispatch(s)}} : TRUE
  ELSE [s EXCEPT !.isProcessingQueue = FALSE]

(* content.js:99-101 *)
IsRateLimited(s) ==
  s.rateLimitResetTime > 0 /\ Seconds(now) < s.rateLimitResetTime

(* processRequestQueue from its entry (content.js:93-143) *)
processRequestQueue(s) ==
  IF s.isProcessingQueue \/ Len(s.requestQueue) = 0 THEN s
  ELSE IF IsRateLimited(s)
  THEN LET waitTime == (s.rateLimitResetTime - Seconds(now)) * Ms(1000)
       IN  [s EXCEPT !.timers = AddTimer(@,
              Timer("recheck", now + Min(waitTime, RATE_LIMIT_POLL_MAX), 0))]
  ELSE RunLoop([s EXCEPT !.rateLimitResetTime = IF @ > 0 THEN 0 ELSE @,
                         !.isProcessingQueue = TRUE])

(* JavaScript's `location || null` *)
OrNull(location) == IF location = "" THEN Null ELSE location

(* How the promise of makeLocationRequest settles. *)
Fulfilled(value) == [kind |-> "fulfilled", value |-> value]
Rejected == [kind |-> "rejected", value |-> Null]

(* content.js:165 *)
ResponseOutcome(location) == Fulfilled(location)
(* The timer of content.js:178-182 rejecting instead of resolving. *)
TimeoutRejects == Rejected

(* content.js:181 *)
TimeoutOutcome == Fulfilled(Null)

(* The chain of content.js:128-139 without the setTimeout of its finally *)
SettleNoRecheck(s, id, outcome) ==
  IF s.requests[id].state # "dispatched" THEN s
  ELSE LET s1 == [s EXCEPT
                    !.requests[id].state =
                       IF outcome.kind = "fulfilled" THEN "resolved" ELSE "rejected",
                    !.requests[id].value = outcome.value,
                    !.activeRequests = @ - 1]
       IN  IF outcome.kind = "fulfilled"
           THEN NotifyObservers(
                  AnnotateFinish(s1, s.requests[id].container, outcome.value))
           ELSE s1

(* The promise of makeLocationRequest settles for the first time: the      *)
(* then/catch/finally chain of content.js:128-139 runs, and the annotate   *)
(* operation awaiting getUserLocation (content.js:265) resumes.  A second  *)
(* resolve of a settled promise does nothing.                              *)
Settle(s, id, outcome) ==
  IF s.requests[id].state # "dispatched" THEN s
  ELSE LET s1 == [s EXCEPT
                    !.requests[id].state =
                       IF outcome.kind = "fulfilled" THEN "resolved" ELSE "rejected",
                    !.requests[id].value = outcome.value,
                    !.activeRequests = @ - 1,
                    !.timers = AddTimer(@, Timer("recheck", now + RECHECK_DELAY, 0))]
       IN  IF outcome.kind = "fulfilled"
           THEN NotifyObservers(
                  AnnotateFinish(s1, s.requests[id].container, outcome.value))
           ELSE s1

(* The handler never removed from the window: the removeEventListener of  *)
(* content.js:159 and 179 left out.                                        *)
onLocationResponseStillListening(s, m) ==
  IF /\ m.requestId \in DOMAIN s.requests
     /\ s.requests[m.requestId].screenName = m.screenName
  THEN LET id == m.requestId
           s2 == saveCacheEntry(s, m.screenName, OrNull(m.location))
       IN  Settle(s2, id, ResponseOutcome(OrNull(m.location)))
  ELSE s

(* The handler of content.js:151-167 on a __locationResponse message *)
onLocationResponse(s, m) ==
  IF /\ m.requestId \in DOMAIN s.requests
     /\ s.requests[m.requestId].listening
     /\ s.requests[m.requestId].screenName = m.screenName
  THEN LET id == m.requestId
           s1 == [s EXCEPT !.requests[id].listening = FALSE]
           s2 == saveCacheEntry(s1, m.screenName, OrNull(m.location))
       IN  Settle(s2, id, ResponseOutcome(OrNull(m.location)))
  ELSE s

(* The timer callback without the cache write of content.js:180. *)
onRequestTimeoutNoCache(s, id) ==
  Settle([s EXCEPT !.requests[id].listening = FALSE], id, TimeoutOutcome)

(* The timer callback of content.js:178-182 *)
onRequestTimeout(s, id) ==
  LET s1 == [s EXCEPT !.requests[id].listening = FALSE]
      s2 == saveCacheEntry(s1, s.requests[id].screenName, Null)
  IN  Settle(s2, id, TimeoutOutcome)

(* The cache test of content.js:189 made on the value, not with has(). *)
IsCachedTruthy(s, screenName) ==
  screenName \in DOMAIN s.locationCache /\ s.locationCache[screenName] # Null

(* content.js:189 *)
IsCached(s, screenName) == screenName \in DOMAIN s.locationCache

NewRequest(screenName, c) ==
  [screenName |-> screenName, container |-> c, state |-> "queued",
   startedAt |-> 0, listening |-> FALSE, value |-> Null]

(* getUserLocation (content.js:187-199): the cached value, or a queued     *)
(* request and a call of processRequestQueue.                              *)
getUserLocation(s, screenName, c) ==
  IF IsCached(s, screenName)
  THEN [s |-> s, cached |-> TRUE, value |-> s.locationCache[screenName]]
  ELSE LET id == Len(s.requests) + 1
       IN  CHOOSE out \in
             {[s |-> processRequestQueue(s1), cached |-> FALSE, value |-> Null] :
                s1 \in {[s EXCEPT !.requests = Append(@, NewRequest(screenName, c)),
                                  !.requestQueue = Append(@, id)]}} : TRUE

----------------------------------------------------------------------------
(* Scan pass: processUsernames (content.js:346-364) *)

(* The check of content.js:355-356 skipping only the containers marked done *)
ShouldAnnotateUnlessDone(status) == status # "true"

(* content.js:355-356 *)
ShouldAnnotate(status) == status = "absent" \/ status = "failed"

(* addFlagToUsername without the processing mark of content.js:262. *)
AnnotateStartNoMark(s, c) ==
  IF s.tag[c] = "true"
  THEN [s |-> s, cached |-> FALSE, value |-> Null]
  ELSE getUserLocation(s, extractUsername(c), c)

(* addFlagToUsername up to its await (content.js:255-265) *)
AnnotateStart(s, c) ==
  IF s.tag[c] = "true"
  THEN [s |-> s, cached |-> FALSE, value |-> Null]
  ELSE getUserLocation([s EXCEPT !.tag[c] = "processing"], extractUsername(c), c)

(* The for loop over the containers in document order; `resumed` collects  *)
(* the annotate operations whose await got a cached value: they continue   *)
(* as microtasks once the loop has ended.  (The result r of a call is      *)
(* bound as the element of a singleton, so that it is computed once.)      *)
RECURSIVE ScanFrom(_, _, _)
ScanFrom(s, c, resumed) ==
  IF c > NumContainers THEN [s |-> s, resumed |-> resumed]
  ELSE IF c \in present /\ ShouldAnnotate(s.tag[c])
  THEN CHOOSE out \in
         {ScanFrom(r.s, c + 1,
                   IF r.cached THEN Append(resumed, <<c, r.value>>) ELSE resumed) :
            r \in {AnnotateStart(s, c)}} : TRUE
  ELSE ScanFrom(s, c + 1, resumed)

RECURSIVE FinishAll(_, _)
FinishAll(s, resumed) ==
  IF resumed = <<>> THEN NotifyObservers(s)
  ELSE CHOOSE out \in
         {FinishAll(s1, Tail(resumed)) :
            s1 \in {AnnotateFinish(s, Head(resumed)[1], Head(resumed)[2])}} : TRUE

processUsernames(s) ==
  CHOOSE out \in {FinishAll(r.s, r.resumed) : r \in {ScanFrom(s, 1, <<>>)}} : TRUE

----------------------------------------------------------------------------
(* Bridge (pageScript.js:87-171).  A fetch ends in one of these ways.      *)

BodyLocations == {"France", "Atlantis", Null}

Outcome(kind, location, reset) ==
  [kind |-> kind, location |-> location, reset |-> reset]

(* kind: "ok" a 2xx response whose JSON body parsed (location: the         *)
(* account_based_in field, Null when missing); "badjson" a 2xx response    *)
(* whose body does not parse; "http" another non-2xx status; "429" (reset: *)
(* the x-rate-limit-reset header, 0 when absent); "network" fetch threw.   *)
Outcomes ==
  {Outcome("ok", l, 0) : l \in BodyLocations}
  \cup {Outcome("badjson", Null, 0), Outcome("http", Null, 0),
        Outcome("network", Null, 0), Outcome("429", Null, 0),
        Outcome("429", Null, Seconds(now) + RateLimitWindow)}

(* How long a fetch takes, when it ends at all. *)
FetchLatencies == {Ms(1000), Ms(3000), Ms(10500)}

IsFailure(o) == o.kind # "ok"

(* The handler returning after the rate-limit notification of             *)
(* pageScript.js:143-147, before the response of lines 155-160.            *)
BridgeReplyEarlyReturn(screenName, requestId, o) ==
  IF o.kind = "ok"
  THEN <<Message("locationResponse", screenName, requestId, OrNull(o.location), 0)>>
  ELSE IF o.kind = "429" /\ o.reset # 0
  THEN <<Message("rateLimitInfo", screenName, requestId, Null, o.reset)>>
  ELSE <<Message("locationResponse", screenName, requestId, Null, 0)>>

(* The handler posting the response before the rate-limit notification *)
BridgeReplyResponseFirst(screenName, requestId, o) ==
  IF o.kind = "ok"
  THEN <<Message("locationResponse", screenName, requestId, OrNull(o.location), 0)>>
  ELSE IF o.kind = "429" /\ o.reset # 0
  THEN <<Message("locationResponse", screenName, requestId, Null, 0),
         Message("rateLimitInfo", screenName, requestId, Null, o.reset)>>
  ELSE <<Message("locationResponse", screenName, requestId, Null, 0)>>

(* The messages the handler posts once the fetch has ended                 *)
(* (pageScript.js:120-168), in posting order.                              *)
BridgeReply(screenName, requestId, o) ==
  IF o.kind = "ok"
  THEN <<Message("locationResponse", screenName, requestId, OrNull(o.location), 0)>>
  ELSE IF o.kind = "429" /\ o.reset # 0
  THEN <<Message("rateLimitInfo", screenName, requestId, Null, o.reset),
         Message("locationResponse", screenName, requestId, Null, 0)>>
  ELSE <<Message("locationResponse", screenName, requestId, Null, 0)>>

Responses(ms) == SelectSeq(ms, LAMBDA m : m.type = "locationResponse")

----------------------------------------------------------------------------
(* Persisting the cache: saveCache (content.js:40-58) *)

CACHE_EXPIRY_DAYS == 30
CACHE_EXPIRY == CACHE_EXPIRY_DAYS * 24 * 60 * 60 * Ms(1000)

(* The keys cacheObj has after the loop of content.js:46-52.  cacheObj is  *)
(* a plain object: an assignment to its key "__proto__" calls the setter   *)
(* inherited from Object.prototype, which makes the entry the prototype of *)
(* cacheObj and adds no key of its own; storage.set writes the object's    *)
(* own keys.  Every other handle becomes a key.                            *)
OwnKeys(cache) == DOMAIN cache \ {"__proto__"}

(* The object saveCache hands to storage.set (content.js:42-54) *)
CacheObj(cache) ==
  [h \in OwnKeys(cache) |->
     [location |-> cache[h], expiry |-> now + CACHE_EXPIRY, cachedAt |-> now]]

----------------------------------------------------------------------------
(* Initial state.  ScriptStarts: the content script has been evaluated     *)
(* (content.js:1-16).  Init: init() (content.js:394-424) has run on an     *)
(* empty store.                                                            *)

EmptyMap == [h \in {} |-> Null]

ScriptStarts ==
  /\ now = StartTime
  /\ locationCache = EmptyMap
  /\ saveCacheTimeout = FALSE
  /\ storageWrites = <<>>
  /\ requestQueue = <<>>
  /\ isProcessingQueue = FALSE
  /\ lastRequestTime = 0
  /\ activeRequests = 0
  /\ rateLimitResetTime = 0
  /\ requests = <<>>
  /\ messages = <<>>
  /\ fetches = EmptyMap
  /\ present = {}
  /\ tag = [c \in Containers |-> "absent"]
  /\ flags = [p \in Parents |-> 0]
  /\ href = 0
  /\ lastUrl = 0
  /\ others = 0

(* The timers init() sets up after loadCache (content.js:404-406, 423) *)
InitTimers(t) ==
  SetToBag({Timer("scan", t + INITIAL_SCAN_DELAY, 1),
            Timer("saveInterval", t + SAVE_INTERVAL, 0)})

Init ==
  /\ ScriptStarts
  /\ storage = EmptyMap
  /\ timers = InitTimers(StartTime)
  /\ storageGet = "none"
  /\ lookup = NoLookup
  /\ pageScript = "loading"

----------------------------------------------------------------------------
(* Actions *)

Due(t) == t.at <= now

Unchanged_bridge == UNCHANGED <<fetches>>
Unchanged_env ==
  UNCHANGED <<now, storage, storageWrites, present, storageGet, lookup, href,
              others, pageScript>>

(* The host page adds nodes in one task: k further containers (infinite   *)
(* scroll) and j other nodes.  Both observers are called back once.        *)
HostAddsNodes ==
  /\ storageGet = "none"
  /\ now <= StartTime + HostSeconds * Ms(1000)
  /\ \E k \in 0..(NumContainers - Cardinality(present)) :
     \E j \in 0..(MaxOthers - others) :
       /\ k + j >= 1
       /\ present' = present \cup
                       ((Cardinality(present) + 1)..(Cardinality(present) + k))
       /\ others' = others + j
  /\ LET s == observerCallbacks(State)
     IN  timers' = s.timers /\ lastUrl' = s.lastUrl
  /\ UNCHANGED <<storageGet, lookup, href, pageScript,
                 now, locationCache, saveCacheTimeout, storage, storageWrites,
                 requestQueue, isProcessingQueue, lastRequestTime,
                 activeRequests, rateLimitResetTime, requests, messages,
                 fetches, tag, flags>>

(* The host page changes the URL (history.pushState of the single-page     *)
(* application), also before init() has gone on: nothing of the content    *)
(* script runs.                                                            *)
HostNavigates ==
  /\ now <= StartTime + HostSeconds * Ms(1000)
  /\ href < MaxNavigations
  /\ href' = href + 1
  /\ UNCHANGED <<storageGet, lookup, lastUrl, others, pageScript,
                 now, locationCache, saveCacheTimeout, storage, storageWrites,
                 requestQueue, isProcessingQueue, lastRequestTime,
                 activeRequests, rateLimitResetTime, timers, requests, messages,
                 fetches, present, tag, flags>>

(* The host page changes a child list without adding a node under          *)
(* document.body: it removes a node, or adds one to <head>.  Only the      *)
(* observer of document is called back (content.js:372-385, 413-420). It   *)
(* changes nothing unless the URL has changed since it last looked.        *)
HostChangesChildList ==
  /\ storageGet = "none"
  /\ now <= StartTime + HostSeconds * Ms(1000)
  /\ href # lastUrl
  /\ LET s == navigationObserver(State)
     IN  timers' = s.timers /\ lastUrl' = s.lastUrl
  /\ UNCHANGED <<storageGet, lookup, href, others, pageScript, present,
                 now, locationCache, saveCacheTimeout, storage, storageWrites,
                 requestQueue, isProcessingQueue, lastRequestTime,
                 activeRequests, rateLimitResetTime, requests, messages,
                 fetches, tag, flags>>

(* The injected script has loaded: its onload handler removes the element  *)
(* from <head> (content.js:76-78), a change of a child list that the       *)
(* observer of document sees.  The load is a step of the environment and   *)
(* happens, if at all, while the host page is active.                      *)
ScriptLoads ==
  /\ pageScript = "loading"
  /\ now <= StartTime + HostSeconds * Ms(1000)
  /\ pageScript' = "removed"
  /\ LET s == navigationObserver(State)
     IN  timers' = s.timers /\ lastUrl' = s.lastUrl
  /\ UNCHANGED <<storageGet, lookup, href, others, present,
                 now, locationCache, saveCacheTimeout, storage, storageWrites,
                 requestQueue, isProcessingQueue, lastRequestTime,
                 activeRequests, rateLimitResetTime, requests, messages,
                 fetches, tag, flags>>

(* setTimeout(processUsernames, ...) fires (content.js:383, 404-406, 416) *)
ScanTimerFires ==
  \E t \in Pending :
    /\ t.kind \in {"scan", "navscan"} /\ Due(t)
    /\ Install(processUsernames([State EXCEPT !.timers = DelTimer(@, t)]))
    /\ Unchanged_env /\ Unchanged_bridge

(* The await of content.js:120 ends: the loop dispatches and goes on *)
IntervalTimerFires ==
  \E t \in Pending :
    /\ t.kind = "interval" /\ Due(t)
    /\ Install(RunLoop(Dispatch([State EXCEPT !.timers = DelTimer(@, t)])))
    /\ Unchanged_env /\ Unchanged_bridge

(* setTimeout(processRequestQueue, ...) fires (content.js:104, 138) *)
RecheckTimerFires ==
  \E t \in Pending :
    /\ t.kind = "recheck" /\ Due(t)
    /\ Install(processRequestQueue([State EXCEPT !.timers = DelTimer(@, t)]))
    /\ Unchanged_env /\ Unchanged_bridge

(* The 10 s timer of a dispatched request fires (content.js:178-182) *)
RequestTimerFires ==
  \E t \in Pending :
    /\ t.kind = "timeout" /\ Due(t)
    /\ Install(onRequestTimeout([State EXCEPT !.timers = DelTimer(@, t)], t.id))
    /\ Unchanged_env /\ Unchanged_bridge

(* The debounce timer of saveCacheEntry fires (content.js:65-66): saveCache *)
(* builds the blob and awaits storage.set.                                  *)
PersistTimerFires ==
  \E t \in Pending :
    /\ t.kind = "persist" /\ Due(t)
    /\ timers' = DelTimer(timers, t)
    /\ storageWrites' = Append(storageWrites,
                               [blob |-> CacheObj(locationCache), debounced |-> TRUE])
    /\ UNCHANGED <<storageGet, lookup, href, lastUrl, others, pageScript,
                   now, locationCache, saveCacheTimeout, storage, requestQueue,
                   isProcessingQueue, lastRequestTime, activeRequests,
                   rateLimitResetTime, requests, messages, fetches, present,
                   tag, flags>>

(* storage.set settles: it resolves, or it rejects and saveCache catches   *)
(* the error (content.js:54-57); the debounced save then clears            *)
(* saveCache.timeout (content.js:67).  results: how the call may settle.   *)
StorageWriteCompletes(results) ==
  /\ storageWrites # <<>>
  /\ \E resolved \in results :
       storage' = IF resolved THEN Head(storageWrites).blob ELSE storage
  /\ storageWrites' = Tail(storageWrites)
  /\ saveCacheTimeout' = IF Head(storageWrites).debounced THEN FALSE
                         ELSE saveCacheTimeout
  /\ UNCHANGED <<storageGet, lookup, href, lastUrl, others, pageScript,
                 now, locationCache, requestQueue, isProcessingQueue,
                 lastRequestTime, activeRequests, rateLimitResetTime, timers,
                 requests, messages, fetches, present, tag, flags>>

(* A window message event, by the type of the message.  The bridge's       *)
(* handler starts (pageScript.js:87-118); when its fetch will have ended   *)
(* is fixed here: after one of FetchLatencies, or never.                   *)
DeliverFetchLocation ==
  /\ messages # <<>> /\ Head(messages).type = "fetchLocation"
  /\ messages' = Tail(messages)
  /\ \E d \in FetchLatencies \cup {0} :
       fetches' = Put(fetches, Head(messages).requestId,
                    [screenName |-> Head(messages).screenName, pc |-> "fetching",
                     endsAt |-> IF d = 0 THEN 0 ELSE now + d,
                     posted |-> 0, failed |-> FALSE, location |-> Null,
                     reset |-> 0])
  /\ UNCHANGED <<storageGet, lookup, href, lastUrl, others, pageScript,
                 now, locationCache, saveCacheTimeout, storage, storageWrites,
                 requestQueue, isProcessingQueue, lastRequestTime,
                 activeRequests, rateLimitResetTime, timers, requests, present,
                 tag, flags>>

(* content.js:82-89 *)
DeliverRateLimitInfo ==
  /\ messages # <<>> /\ Head(messages).type = "rateLimitInfo"
  /\ messages' = Tail(messages)
  /\ rateLimitResetTime' = Head(messages).resetTime
  /\ UNCHANGED <<storageGet, lookup, href, lastUrl, others, pageScript,
                 now, locationCache, saveCacheTimeout, storage, storageWrites,
                 requestQueue, isProcessingQueue, lastRequestTime,
                 activeRequests, timers, requests, fetches, present, tag, flags>>

DeliverLocationResponse ==
  /\ messages # <<>> /\ Head(messages).type = "locationResponse"
  /\ Install(onLocationResponse([State EXCEPT !.messages = Tail(@)], Head(messages)))
  /\ Unchanged_env /\ Unchanged_bridge

(* The fetch of a bridge handler ends and the handler posts its reply. *)
FetchEnds(outcomes) ==
  \E id \in DOMAIN fetches : \E o \in outcomes :
    /\ fetches[id].pc = "fetching" /\ fetches[id].endsAt = now
    /\ LET reply == BridgeReply(fetches[id].screenName, id, o)
       IN  /\ messages' = messages \o reply
           /\ fetches' = [fetches EXCEPT
                 ![id].pc = "done",
                 ![id].posted = @ + Len(Responses(reply)),
                 ![id].failed = IsFailure(o),
                 ![id].reset = o.reset,
                 ![id].location = IF Responses(reply) = <<>> THEN Null
                                  ELSE Responses(reply)[1].location]
    /\ UNCHANGED <<storageGet, lookup, href, lastUrl, others, pageScript,
                   now, locationCache, saveCacheTimeout, storage, storageWrites,
                   requestQueue, isProcessingQueue, lastRequestTime,
                   activeRequests, rateLimitResetTime, timers, requests,
                   present, tag, flags>>

(* Time passes to the next deadline: of a timer or of a fetch. *)
FetchDeadlines ==
  {fetches[id].endsAt : id \in {i \in DOMAIN fetches : fetches[i].pc = "fetching"
                                                       /\ fetches[i].endsAt # 0}}

Deadlines == {t.at : t \in Pending} \cup FetchDeadlines

Advance ==
  /\ messages = <<>> /\ storageWrites = <<>>
  /\ Deadlines # {}
  /\ \A a \in Deadlines : a > now
  /\ \E a \in Deadlines :
       /\ \A b \in Deadlines : a <= b
       /\ a <= Horizon
       /\ now' = a
  /\ UNCHANGED <<storageGet, lookup, href, lastUrl, others, pageScript,
                 locationCache, saveCacheTimeout, storage, storageWrites,
                 requestQueue, isProcessingQueue, lastRequestTime,
                 activeRequests, rateLimitResetTime, timers, requests,
                 messages, fetches, present, tag, flags>>

Next ==
  \/ HostAddsNodes
  \/ HostNavigates
  \/ HostChangesChildList
  \/ ScriptLoads
  \/ ScanTimerFires
  \/ IntervalTimerFires
  \/ RecheckTimerFires
  \/ RequestTimerFires
  \/ PersistTimerFires
  \/ StorageWriteCompletes(BOOLEAN)
  \/ DeliverFetchLocation
  \/ DeliverRateLimitInfo
  \/ DeliverLocationResponse
  \/ FetchEnds(Outcomes)
  \/ Advance

Spec == Init /\ [][Next]_vars

----------------------------------------------------------------------------
(* The persistent cache on its own: init() from its first line, on a store *)
(* left by an earlier page; the calls of saveCacheEntry (content.js:163,    *)
(* 180) come at any time of the first PutSeconds; the clock runs past the  *)
(* first interval save.                                                    *)

PutSeconds == 7        \* saveCacheEntry is called this long after init()
CacheSeconds == 37     \* the clock of the cache stops this long after init()
CacheHorizon == StartTime + CacheSeconds * Ms(1000)

CacheHandles == {"alice", "bob"}
CacheLocations == {"France", Null}

(* An entry of the stored blob (content.js:46-50); expiry 0: no such field *)
Entry(location, expiry) ==
  [location |-> location, expiry |-> expiry,
   cachedAt |-> IF expiry = 0 THEN 0 ELSE expiry - CACHE_EXPIRY]

(* The blobs init() may find: entries that expired, that expire at the     *)
(* instant of the load, that are live, and entries without expiry.         *)
StoredExpiries == {0, StartTime - 1, StartTime, StartTime + 1}
StoredEntries == {Entry(l, e) : l \in CacheLocations, e \in StoredExpiries}
StoredBlobs == UNION {[H -> StoredEntries] : H \in SUBSET CacheHandles}

(* content.js:27 with >= for > *)
IsLiveOrExpiring(data, t) == data.expiry # 0 /\ data.expiry >= t

(* content.js:27 *)
IsLive(data, t) == data.expiry # 0 /\ data.expiry > t

(* loadCache, once storage.get has resolved with the blob `cached`         *)
(* (content.js:22-32)                                                      *)
loadCache(cache, cached, t) ==
  LET live == {h \in DOMAIN cached : IsLive(cached[h], t)}
  IN  [h \in (DOMAIN cache) \cup live |->
         IF h \in live THEN cached[h].location ELSE cache[h]]

InitCache ==
  /\ ScriptStarts
  /\ storage \in StoredBlobs
  /\ storageGet \in {"ok", "error"}
  /\ timers = EmptyBag
  /\ lookup = NoLookup
  /\ pageScript = "none"

(* storage.get settles and init() goes on (content.js:21-36, 397-423): a   *)
(* rejection is caught and logged.  init() injects the page script, sets   *)
(* its timers, creates the observers and reads location.href into lastUrl  *)
(* (content.js:412).                                                       *)
LoadCacheReturns ==
  /\ storageGet # "none"
  /\ storageGet' = "none"
  /\ locationCache' = IF storageGet = "ok"
                      THEN loadCache(locationCache, storage, now)
                      ELSE locationCache
  /\ timers' = timers (+) InitTimers(now)
  /\ pageScript' = "loading"
  /\ lastUrl' = href
  /\ UNCHANGED <<lookup, href, others,
                 now, saveCacheTimeout, storage, storageWrites,
                 requestQueue, isProcessingQueue, lastRequestTime,
                 activeRequests, rateLimitResetTime, requests, messages,
                 fetches, present, tag, flags>>

(* A response or a timeout calls saveCacheEntry (content.js:163, 180),    *)
(* for one of `handles`                                                    *)
CachePut(handles) ==
  /\ storageGet = "none"
  /\ now <= StartTime + PutSeconds * Ms(1000)
  /\ \E h \in handles : \E v \in CacheLocations :
       Install(saveCacheEntry(State, h, v))
  /\ Unchanged_env /\ Unchanged_bridge

(* setInterval(saveCache, 30000) fires (content.js:423) *)
SaveIntervalFires ==
  \E t \in Pending :
    /\ t.kind = "saveInterval" /\ Due(t)
    /\ timers' = AddTimer(DelTimer(timers, t),
                          Timer("saveInterval", t.at + SAVE_INTERVAL, 0))
    /\ storageWrites' = Append(storageWrites,
                               [blob |-> CacheObj(locationCache), debounced |-> FALSE])
    /\ UNCHANGED <<storageGet, lookup, href, lastUrl, others, pageScript,
                   now, locationCache, saveCacheTimeout, storage, requestQueue,
                   isProcessingQueue, lastRequestTime, activeRequests,
                   rateLimitResetTime, requests, messages, fetches, present,
                   tag, flags>>

(* Time passes: to the next whole second or to the next timer. *)
CacheAdvance ==
  /\ storageGet = "none" /\ storageWrites = <<>>
  /\ \A t \in Pending : t.at > now
  /\ LET second == (Seconds(now) + 1) * Ms(1000)
         next == IF \E t \in Pending : t.at < second
                 THEN CHOOSE a \in {t.at : t \in Pending} :
                        \A t \in Pending : a <= t.at
                 ELSE second
     IN  /\ next <= CacheHorizon
         /\ now' = next
  /\ UNCHANGED <<storageGet, lookup, href, lastUrl, others, pageScript,
                 locationCache, saveCacheTimeout, storage, storageWrites,
                 requestQueue, isProcessingQueue, lastRequestTime,
                 activeRequests, rateLimitResetTime, timers, requests,
                 messages, fetches, present, tag, flags>>

NextCache ==
  \/ LoadCacheReturns
  \/ ScriptLoads
  \/ CachePut(CacheHandles)
  \/ ScanTimerFires
  \/ PersistTimerFires
  \/ SaveIntervalFires
  \/ StorageWriteCompletes(BOOLEAN)
  \/ CacheAdvance

SpecCache == InitCache /\ [][NextCache]_vars

(* The same for any handle extractUsername can return (content.js:209,     *)
(* 228: the first segment of a link's path), "__proto__" among them, with  *)
(* a store that accepts every write.                                       *)
PutHandles == CacheHandles \cup {"__proto__"}

NextCachePuts ==
  \/ LoadCacheReturns
  \/ ScriptLoads
  \/ CachePut(PutHandles)
  \/ ScanTimerFires
  \/ PersistTimerFires
  \/ SaveIntervalFires
  \/ StorageWriteCompletes({TRUE})
  \/ CacheAdvance

SpecCachePuts == InitCache /\ [][NextCachePuts]_vars

----------------------------------------------------------------------------
(* getCountryFlag on its own: one call, with null, the empty string, or a  *)
(* name (a table key, an inherited property name, a name that is neither,  *)
(* or nothing) with the case of up to MaxFlips letters changed and up to   *)
(* MaxPad white-space characters before and after it.                      *)

MaxPad == 1
MaxFlips == 2

swapCase(c) ==
  IF IsUpper(c) THEN LowerCase[IndexOf(UpperCase, c)]
  ELSE IF IsLower(c) THEN UpperCase[IndexOf(LowerCase, c)]
  ELSE c

Recase(str, flips) ==
  [i \in 1..Len(str) |-> IF i \in flips THEN swapCase(str[i]) ELSE str[i]]

Blanks(n, w) == [i \in 1..n |-> w]

Names ==
  {OwnEntries[i][1] : i \in 1..Len(OwnEntries)}
    \cup {InheritedEntries[i][1] : i \in 1..Len(InheritedEntries)}
    \cup {Atlantis, <<>>}

FlipSets(str) == {f \in SUBSET (1..Len(str)) : Cardinality(f) <= MaxFlips}
Variants == UNION {{Recase(n, f) : f \in FlipSets(n)} : n \in Names}

Arguments ==
  {JsNull} \cup
  {Blanks(l, w) \o v \o Blanks(r, w) :
     v \in Variants, l \in 0..MaxPad, r \in 0..MaxPad, w \in WhiteSpace}

InitFlag ==
  /\ ScriptStarts
  /\ storage = EmptyMap
  /\ timers = InitTimers(StartTime)
  /\ storageGet = "none"
  /\ pageScript = "loading"
  /\ lookup \in {[countryName |-> a, result |-> Null, called |-> FALSE] :
                   a \in Arguments}

CallGetCountryFlag ==
  /\ ~lookup.called
  /\ lookup' = [lookup EXCEPT !.result = getCountryFlag(lookup.countryName),
                              !.called = TRUE]
  /\ UNCHANGED <<storageGet, href, lastUrl, others, pageScript,
                 now, locationCache, saveCacheTimeout, storage,
                 storageWrites, requestQueue, isProcessingQueue,
                 lastRequestTime, activeRequests, rateLimitResetTime, timers,
                 requests, messages, fetches, present, tag, flags>>

NextFlag == CallGetCountryFlag

SpecFlag == InitFlag /\ [][NextFlag]_vars

----------------------------------------------------------------------------
(* The program run from the first line of init(), on an empty store or on  *)
(* one that holds a live entry for each handle, until every request the    *)
(* host page's containers can cause has had the time to settle: the clock  *)
(* goes on for SettleBound per container after the last scan that can      *)
(* enqueue, and for the delay of the scan a flag insertion can trigger     *)
(* after a URL change, past the first interval save.  The bridge's fetch   *)
(* ends with one of the outcomes that differ for the queue: a location, a  *)
(* failure, a rate-limit signal; the store, which the program does not     *)
(* read again, accepts every write.                                        *)

Max(a, b) == IF a > b THEN a ELSE b

SettleBound ==
  REQUEST_TIMEOUT + RECHECK_DELAY + MIN_REQUEST_INTERVAL
    + (RateLimitWindow + 1) * Ms(1000)

LiveHorizon ==
  StartTime + Max(HostSeconds * Ms(1000) + SCAN_DEBOUNCE, INITIAL_SCAN_DELAY)
            + NumContainers * SettleBound + NAV_SCAN_DELAY

LiveStores ==
  {EmptyMap, [h \in CacheHandles |-> Entry("France", StartTime + 1)]}

InitLive ==
  /\ ScriptStarts
  /\ storage \in LiveStores
  /\ storageGet = "ok"
  /\ timers = EmptyBag
  /\ lookup = NoLookup
  /\ pageScript = "none"

LiveOutcomes ==
  {Outcome("ok", "France", 0), Outcome("network", Null, 0),
   Outcome("429", Null, Seconds(now) + RateLimitWindow)}

LiveAdvance ==
  /\ messages = <<>> /\ storageWrites = <<>>
  /\ Deadlines # {}
  /\ \A a \in Deadlines : a > now
  /\ \E a \in Deadlines :
       /\ \A b \in Deadlines : a <= b
       /\ a <= LiveHorizon
       /\ now' = a
  /\ UNCHANGED <<storageGet, lookup, href, lastUrl, others, pageScript,
                 locationCache, saveCacheTimeout, storage, storageWrites,
                 requestQueue, isProcessingQueue, lastRequestTime,
                 activeRequests, rateLimitResetTime, timers, requests,
                 messages, fetches, present, tag, flags>>

NextLive ==
  \/ LoadCacheReturns
  \/ HostAddsNodes
  \/ HostNavigates
  \/ HostChangesChildList
  \/ ScriptLoads
  \/ ScanTimerFires
  \/ IntervalTimerFires
  \/ RecheckTimerFires
  \/ RequestTimerFires
  \/ PersistTimerFires
  \/ SaveIntervalFires
  \/ StorageWriteCompletes({TRUE})
  \/ DeliverFetchLocation
  \/ DeliverRateLimitInfo
  \/ DeliverLocationResponse
  \/ FetchEnds(LiveOutcomes)
  \/ LiveAdvance

SpecLive == InitLive /\ [][NextLive]_vars

(* A step of the program or of the bridge: the event loop runs a due       *)
(* timer or delivers a posted message, a storage call settles, a fetch     *)
(* with a latency ends, time passes.  Whenever such a step is possible one *)
(* is taken; the host page is not obliged to add containers.               *)
ProgramStep ==
  \/ LoadCacheReturns
  \/ ScanTimerFires
  \/ IntervalTimerFires
  \/ RecheckTimerFires
  \/ RequestTimerFires
  \/ PersistTimerFires
  \/ SaveIntervalFires
  \/ StorageWriteCompletes({TRUE})
  \/ DeliverFetchLocation
  \/ DeliverRateLimitInfo
  \/ DeliverLocationResponse
  \/ FetchEnds(LiveOutcomes)
  \/ LiveAdvance

FairSpecLive == SpecLive /\ WF_vars(ProgramStep)

----------------------------------------------------------------------------
(* Vocabulary of the properties *)

Ids == DOMAIN requests
Dispatched == {id \in Ids : requests[id].startedAt # 0}
Unsettled == {id \in Ids : requests[id].state = "dispatched"}
TimeoutPending(id) == \E t \in Pending : t.kind = "timeout" /\ t.id = id
ScanPending == \E t \in Pending : t.kind \in {"scan", "navscan"}
HandleOf(id) == requests[id].screenName
RateLimitInForce ==
  rateLimitResetTime > 0 /\ Seconds(now) < rateLimitResetTime

----------------------------------------------------------------------------
(* C1: in every reachable state at most MAX_CONCURRENT_REQUESTS = 2        *)
(* requests are dispatched with their promise not yet settled, and the     *)
(* counter activeRequests is at most 2.                                    *)
C1_AtMostTwoActive ==
  /\ Cardinality(Unsettled) <= MAX_CONCURRENT_REQUESTS
  /\ activeRequests <= MAX_CONCURRENT_REQUESTS

(* Two requests in flight and a third one held back in the queue. *)
C1_Witness ==
  /\ Cardinality(Unsettled) = MAX_CONCURRENT_REQUESTS
  /\ activeRequests = MAX_CONCURRENT_REQUESTS
  /\ requestQueue # <<>>

(* C2: any two dispatches start at least MIN_REQUEST_INTERVAL = 2000 ms    *)
(* apart, measured from dispatch start to dispatch start.                  *)
C2_DispatchSpacing ==
  \A i \in Dispatched : \A j \in Dispatched :
    i # j =>
      \/ requests[j].startedAt - requests[i].startedAt >= MIN_REQUEST_INTERVAL
      \/ requests[i].startedAt - requests[j].startedAt >= MIN_REQUEST_INTERVAL

(* A dispatch made by the loop exactly 2000 ms after the previous one, *)
(* and a later one made by a recheck after a longer gap.               *)
C2_Witness ==
  \E i \in Dispatched : \E j \in Dispatched : \E k \in Dispatched :
    /\ requests[j].startedAt - requests[i].startedAt = MIN_REQUEST_INTERVAL
    /\ requests[k].startedAt - requests[j].startedAt > MIN_REQUEST_INTERVAL

(* C3: while a rate-limit signal's reset time is in the future (the        *)
(* recorded rateLimitResetTime is after the clock), no step dispatches a   *)
(* request.                                                                *)
C3_NoDispatchWhileRateLimited ==
  [][RateLimitInForce => Dispatched' = Dispatched]_vars

(* C4: a dispatched request that no matching response has answered is     *)
(* never pending longer than 10 s; when its timer fires, 10 s after its    *)
(* dispatch, it resolves to null, activeRequests drops by one and the      *)
(* cache maps its handle to null.                                          *)
C4_TimeoutStep ==
  \A id \in Ids :
    ( /\ requests[id].state = "dispatched" /\ requests[id].listening
      /\ TimeoutPending(id) /\ ~TimeoutPending(id)' )
    => /\ now = requests[id].startedAt + REQUEST_TIMEOUT
       /\ requests'[id].state = "resolved"
       /\ requests'[id].value = Null
       /\ activeRequests' = activeRequests - 1
       /\ HandleOf(id) \in DOMAIN locationCache'
       /\ locationCache'[HandleOf(id)] = Null

(* C4, as a property of the behaviours: the bound on the pending time in  *)
(* every state, the effect of the timer in every step.                     *)
C4_TimeoutResolvesNull ==
  /\ [](\A id \in Unsettled : now <= requests[id].startedAt + REQUEST_TIMEOUT)
  /\ [][C4_TimeoutStep]_vars

(* A request the bridge never answered, resolved to null by its timer. *)
C4_Witness ==
  \E id \in Ids :
    /\ id \in DOMAIN fetches /\ fetches[id].pc = "fetching"
    /\ requests[id].state = "resolved" /\ requests[id].value = Null
    /\ ~TimeoutPending(id)
    /\ now = requests[id].startedAt + REQUEST_TIMEOUT
    /\ locationCache[HandleOf(id)] = Null

(* C5: once the 10 s timer of a request has fired, a location L that a     *)
(* matching response delivered before is still the cached value of the     *)
(* handle, when no other lookup was made for that handle.                  *)
C5_AnsweredSurvivesTimer ==
  \A id \in Ids :
    ( /\ requests[id].state = "resolved" /\ requests[id].value # Null
      /\ ~TimeoutPending(id)
      /\ \A j \in Ids : j # id => HandleOf(j) # HandleOf(id) )
    => /\ HandleOf(id) \in DOMAIN locationCache
       /\ locationCache[HandleOf(id)] = requests[id].value

(* C6: no parent element ever holds more than one flag span, and no step   *)
(* changes the flags under the anchor's parent of a container marked done. *)
C6_OneFlagPerParent ==
  /\ [](\A p \in Parents : flags[p] <= 1)
  /\ [][\A c \in Containers :
          tag[c] = "true" => flags'[AnchorParent(c)] = flags[AnchorParent(c)]]_vars

(* Two containers with the same anchor are both done, with one flag, and   *)
(* the scan scheduled by the insertion has run over them.                  *)
C6_Witness ==
  /\ tag[1] = "true" /\ tag[2] = "true"
  /\ flags[AnchorParent(1)] = 1
  /\ ~ScanPending

(* C7: done is terminal: no step changes the tag of a container marked     *)
(* done or enqueues a request for it.                                      *)
C7_DoneIsTerminal ==
  [][\A c \in Containers :
       tag[c] = "true" =>
         /\ tag'[c] = "true"
         /\ \A id \in DOMAIN requests' :
              id \notin Ids => requests'[id].container # c]_vars

(* Container 1 got the flag and is done, the scan scheduled by the         *)
(* insertion has run over it, and by then the cache holds null for its     *)
(* handle (the lookup made for container 2 failed).                        *)
C7_Witness ==
  /\ tag[1] = "true" /\ flags[AnchorParent(1)] = 1
  /\ tag[2] = "failed"
  /\ "alice" \in DOMAIN locationCache /\ locationCache["alice"] = Null
  /\ ~ScanPending

(* C8: no step enqueues a request for a handle that has a cache entry      *)
(* (null included); an annotate operation on a container whose handle is   *)
(* cached does not wait for the queue, and one that ends in the step it    *)
(* started in has used the cached value.                                   *)
C8_CachedNeverEnqueued ==
  [][/\ \A id \in DOMAIN requests' :
          id \notin Ids => requests'[id].screenName \notin DOMAIN locationCache
     /\ \A c \in Containers :
          /\ (tag[c] # "processing" /\ tag'[c] = "processing")
                => extractUsername(c) \notin DOMAIN locationCache
          /\ (tag[c] = "absent" /\ tag'[c] \in {"failed", "true"})
                => /\ extractUsername(c) \in DOMAIN locationCache
                   /\ tag'[c] =
                        IF getCountryFlag(JsValue(locationCache[extractUsername(c)])) = Null
                        THEN "failed" ELSE "true"]_vars

(* Containers 1 and 2 both failed on a null cache entry after one single   *)
(* lookup of their handle.                                                 *)
C8_Witness ==
  /\ tag[1] = "failed" /\ tag[2] = "failed"
  /\ "alice" \in DOMAIN locationCache /\ locationCache["alice"] = Null
  /\ Cardinality({id \in Ids : HandleOf(id) = "alice"}) = 1

(* C9: a queued request only ever settles by resolving, with a location or *)
(* null; its reject callback is never invoked.                             *)
C9_NeverRejects ==
  \A id \in Ids :
    /\ requests[id].state \in {"queued", "dispatched", "resolved"}
    /\ requests[id].state = "resolved" => requests[id].value \in BodyLocations

(* One request resolved with a location, one after a failure answer of the *)
(* bridge, one that the bridge never answered.                             *)
C9_Witness ==
  \E a \in Ids : \E b \in Ids : \E c \in Ids :
    /\ requests[a].state = "resolved" /\ requests[a].value # Null
    /\ requests[b].state = "resolved" /\ b \in DOMAIN fetches
    /\ fetches[b].pc = "done" /\ fetches[b].failed
    /\ requests[c].state = "resolved" /\ c \in DOMAIN fetches
    /\ fetches[c].pc = "fetching" /\ ~TimeoutPending(c)

(* C10: a bridge handler whose fetch has ended has posted exactly one      *)
(* locationResponse, with the handle and requestId of its request and,     *)
(* after a failure, a null location; before that it has posted none.       *)
C10_OneResponsePerFetch ==
  /\ \A id \in DOMAIN fetches :
       /\ fetches[id].screenName = requests[id].screenName
       /\ fetches[id].pc = "fetching" => fetches[id].posted = 0
       /\ fetches[id].pc = "done" =>
            /\ fetches[id].posted = 1
            /\ fetches[id].failed => fetches[id].location = Null
  /\ \A i \in 1..Len(messages) :
       messages[i].type = "locationResponse" =>
         /\ messages[i].requestId \in DOMAIN fetches
         /\ fetches[messages[i].requestId].pc = "done"
         /\ messages[i].screenName = fetches[messages[i].requestId].screenName
         /\ messages[i].location = fetches[messages[i].requestId].location
         /\ \A j \in 1..Len(messages) :
              (messages[j].type = "locationResponse"
               /\ messages[j].requestId = messages[i].requestId) => j = i

(* A rate-limited fetch with a reset header has posted its two messages. *)
C10_Witness ==
  /\ Len(messages) = 2
  /\ messages[1].type = "rateLimitInfo"
  /\ messages[2].type = "locationResponse"
  /\ fetches[messages[2].requestId].failed
  /\ \E id \in DOMAIN fetches : fetches[id].pc = "done" /\ ~fetches[id].failed

(* Vocabulary of the cache properties *)
PersistTimers == {t \in Pending : t.kind = "persist"}
DebouncedWrites == SelectSeq(storageWrites, LAMBDA w : w.debounced)

(* C11: a cache read made right after saveCacheEntry(handle, location)     *)
(* finds the entry and returns that location, without queueing a request,  *)
(* whatever the state of the debounce timer; and the step of a put changes *)
(* neither the stored blob nor the storage writes in progress.             *)
C11_ReadAfterPut ==
  /\ [](\A h \in CacheHandles : \A v \in CacheLocations :
          LET s == saveCacheEntry(State, h, v)
          IN  getUserLocation(s, h, 1) = [s |-> s, cached |-> TRUE, value |-> v])
  /\ [][(storageGet = "none" /\ locationCache' # locationCache)
          => (storage' = storage /\ storageWrites' = storageWrites)]_vars

(* The cache holds a location and null that the store does not hold yet:   *)
(* the persist timer is pending and no write was made.                     *)
C11_Witness ==
  /\ DOMAIN locationCache = CacheHandles
  /\ locationCache["alice"] = "France" /\ locationCache["bob"] = Null
  /\ storage = EmptyMap /\ storageWrites = <<>>
  /\ PersistTimers # {} /\ saveCacheTimeout

(* C12: when loadCache returns, the in-memory cache holds exactly the       *)
(* stored entries whose expiry is strictly after the time of the load,     *)
(* with their stored locations; entries with an expiry at or before that   *)
(* time, or without expiry, are absent; when the storage read fails the    *)
(* cache is left empty and init() goes on to set its timers.               *)
C12_LoadKeepsLiveEntries ==
  [][(storageGet # "none" /\ storageGet' = "none") =>
       /\ storageGet = "error" => locationCache' = EmptyMap
       /\ storageGet = "ok" =>
            /\ DOMAIN locationCache' = {h \in DOMAIN storage : storage[h].expiry > now}
            /\ \A h \in DOMAIN locationCache' : locationCache'[h] = storage[h].location
       /\ \A t \in BagToSet(InitTimers(now)) : BagIn(t, timers')]_vars

(* Loaded: one live entry kept, and an entry expiring at the instant of    *)
(* the load dropped.                                                       *)
C12_Witness ==
  /\ storageGet = "none" /\ now = StartTime
  /\ DOMAIN storage = CacheHandles
  /\ storage["alice"] = Entry("France", StartTime + 1)
  /\ storage["bob"] = Entry("France", StartTime)
  /\ DOMAIN locationCache = {"alice"} /\ locationCache["alice"] = "France"

(* C13: at most one debounce timer of the persist is pending.  A put made  *)
(* while the timer is pending (or while its write is in progress)          *)
(* schedules no timer; a timer is scheduled by a put, for 5 s later; when   *)
(* it fires, at its deadline, it starts exactly one debounced write, of    *)
(* the map as it is then, and no debounced write starts otherwise.         *)
C13_OneDebounceTimer ==
  /\ [](/\ Cardinality(PersistTimers) <= 1
        /\ \A t \in PersistTimers : CopiesIn(t, timers) = 1
        /\ Cardinality(PersistTimers) + Len(DebouncedWrites)
             = IF saveCacheTimeout THEN 1 ELSE 0)
  /\ [][/\ saveCacheTimeout => PersistTimers' \subseteq PersistTimers
        /\ PersistTimers' \ PersistTimers # {} =>
             \A t \in PersistTimers' : t.at = now + SAVE_DEBOUNCE
        /\ DebouncedWrites' # DebouncedWrites /\ Len(DebouncedWrites') > 0 =>
             /\ Len(DebouncedWrites) = 0 /\ Len(DebouncedWrites') = 1
             /\ \E t \in PersistTimers : t.at = now
             /\ PersistTimers' = {}
             /\ [h \in DOMAIN DebouncedWrites'[1].blob |->
                   DebouncedWrites'[1].blob[h].location] = locationCache]_vars

(* One debounced write in progress, made 6 s after init() by the timer of  *)
(* a put at 1 s: it carries the two handles put before it.                 *)
C13_Witness ==
  /\ Len(DebouncedWrites) = 1 /\ PersistTimers = {} /\ saveCacheTimeout
  /\ now = StartTime + Ms(1000) + SAVE_DEBOUNCE
  /\ DOMAIN DebouncedWrites[1].blob = CacheHandles
  /\ storage = EmptyMap

Stored(h, v) == h \in DOMAIN storage /\ storage[h].location = v

(* A storage.set in progress carries the value v for the handle h *)
BeingWritten(h, v) ==
  \E i \in 1..Len(storageWrites) :
    /\ h \in DOMAIN storageWrites[i].blob
    /\ storageWrites[i].blob[h].location = v

(* C14: every value written by saveCacheEntry is eventually written to     *)
(* durable storage, a value put while a write is in progress included.     *)
(* The store is written by saveCache alone, from the map as it is when the *)
(* save starts (content.js:42-54), so a value can still reach the store    *)
(* only while it is in the map or in a write in progress: the claim        *)
(* requires that no step takes out of the map a value that is neither      *)
(* stored nor being written.                                               *)
C14_EveryValueStored ==
  [][\A h \in DOMAIN locationCache :
       (h \notin DOMAIN locationCache' \/ locationCache'[h] # locationCache[h])
         => \/ Stored(h, locationCache[h])
            \/ BeingWritten(h, locationCache[h])]_vars

(* The blob of a save that starts in this step is the in-memory map with   *)
(* the expiry save time + 30 days on every entry                           *)
SaveCarriesWholeMap ==
  Len(storageWrites') > Len(storageWrites) =>
    LET blob == storageWrites'[Len(storageWrites')].blob
    IN  /\ Len(storageWrites') = Len(storageWrites) + 1
        /\ DOMAIN blob = DOMAIN locationCache
        /\ \A h \in DOMAIN blob :
             /\ blob[h].location = locationCache[h]
             /\ blob[h].expiry = now + 30 * 24 * 60 * 60 * Ms(1000)

(* C15: a save started by the persist timer or by the interval writes a    *)
(* blob with the key set of the in-memory map, the map's location for each *)
(* key, and for every entry the expiry save time + 30 days; when the write *)
(* completes that blob is the stored blob.                                 *)
C15_SaveWritesWholeMap ==
  [][/\ SaveCarriesWholeMap
     /\ Len(storageWrites') < Len(storageWrites) =>
          /\ storage' = Head(storageWrites).blob
          /\ storageWrites' = Tail(storageWrites)]_vars

(* The lookup C16 refers to *)
EqualIgnoringCase(a, b) ==
  /\ Len(a) = Len(b)
  /\ \A i \in 1..Len(a) : a[i] = b[i] \/ a[i] = swapCase(b[i])

Trimmed(str) ==
  LET inner == {i \in 1..Len(str) : str[i] \notin WhiteSpace}
  IN  IF inner = {} THEN <<>>
      ELSE SubSeq(str, CHOOSE i \in inner : \A j \in inner : i <= j,
                       CHOOSE i \in inner : \A j \in inner : i >= j)

ReferenceLookup(arg) ==
  LET keys == {i \in 1..Len(COUNTRY_FLAGS) :
                 EqualIgnoringCase(COUNTRY_FLAGS[i].country, Trimmed(arg))}
  IN  IF arg = JsNull \/ arg = <<>> \/ keys = {} THEN Null
      ELSE COUNTRY_FLAGS[CHOOSE i \in keys : TRUE].flag

(* C16: getCountryFlag(name) returns what the reference lookup returns:    *)
(* null for null or the empty string, the flag of the table key that       *)
(* equals the trimmed name ignoring case, null when no key does.           *)
C16_LookupIsReference ==
  lookup.called => lookup.result = ReferenceLookup(lookup.countryName)

(* Timers and loop continuations that will call or go on with             *)
(* processRequestQueue                                                     *)
QueueWakeUps == {t \in Pending : t.kind \in {"recheck", "interval"}}

Unfinished == {id \in Ids : requests[id].state \in {"queued", "dispatched"}}

(* C17: under fair timers and message delivery every enqueued request is   *)
(* eventually dispatched and settled (whenever requests are unfinished, a  *)
(* state follows in which every request made so far was dispatched and has *)
(* settled); in no reachable state is the queue non-empty with fewer than  *)
(* 2 requests active, no rate limit in force and no timer or loop          *)
(* continuation left that will run processRequestQueue; a container in     *)
(* state processing has an unfinished request, so none stays processing    *)
(* forever.                                                                *)
C17_QueueDrains ==
  /\ (Unfinished # {}) ~>
       (\A id \in Ids : /\ requests[id].startedAt # 0
                        /\ requests[id].state \in {"resolved", "rejected"})
  /\ []((requestQueue # <<>> /\ activeRequests < MAX_CONCURRENT_REQUESTS
         /\ ~RateLimitInForce) => QueueWakeUps # {})
  /\ [](\A c \in Containers :
          tag[c] = "processing" => \E id \in Unfinished : requests[id].container = c)

(* Three requests were enqueued by one scan; the third had to wait for a   *)
(* slot that only a timeout freed; all three have settled, the queue is    *)
(* empty and no container is processing.                                   *)
C17_Witness ==
  /\ Cardinality(Ids) = NumContainers
  /\ \A id \in Ids : requests[id].state = "resolved"
  /\ \E i \in Ids : \E j \in Ids :
       requests[j].startedAt = requests[i].startedAt + REQUEST_TIMEOUT + RECHECK_DELAY
  /\ requestQueue = <<>> /\ activeRequests = 0
  /\ \A c \in Containers : tag[c] # "processing"

(* The fetch of request id ended with a 429 that carried a reset header *)
RateLimited429(id) ==
  id \in DOMAIN fetches /\ fetches[id].pc = "done" /\ fetches[id].reset # 0

(* This step delivers the response to request id to its waiting handler *)
ResponseSettles(id) ==
  /\ messages # <<>> /\ Head(messages).type = "locationResponse"
  /\ Head(messages).requestId = id
  /\ requests[id].state = "dispatched" /\ requests[id].listening
  /\ requests'[id].state # "dispatched"

(* Timer t is a due recheck and this step runs it *)
RecheckRuns(t) ==
  /\ t.kind = "recheck" /\ t.at = now
  /\ CopiesIn(t, timers') < CopiesIn(t, timers)

(* C18: for a 429 with a reset header the bridge posts rateLimitInfo       *)
(* directly before the locationResponse of the same request; so in the     *)
(* step in which the response settles the request, rateLimitResetTime      *)
(* holds that reset time, before and after; and the processRequestQueue    *)
(* call this completion schedules (200 ms later) runs while the rate limit *)
(* is in force and dispatches nothing.                                     *)
C18_RateLimitBeforeResponse ==
  /\ [](\A i \in 1..Len(messages) :
          messages[i].type = "rateLimitInfo" =>
            /\ i < Len(messages)
            /\ messages[i + 1].type = "locationResponse"
            /\ messages[i + 1].requestId = messages[i].requestId)
  /\ [][\A id \in Ids :
          (RateLimited429(id) /\ ResponseSettles(id)) =>
            /\ rateLimitResetTime = fetches[id].reset
            /\ rateLimitResetTime' = fetches[id].reset]_vars
  /\ [][\A id \in Ids : \A t \in Pending :
          ( /\ RateLimited429(id)
            /\ fetches[id].endsAt < requests[id].startedAt + REQUEST_TIMEOUT
            /\ t.at = fetches[id].endsAt + RECHECK_DELAY
            /\ RecheckRuns(t) )
          => (RateLimitInForce /\ Dispatched' = Dispatched)]_vars

(* A request answered by a 429 with reset time has settled, the recheck of *)
(* its completion has run 200 ms later with a request waiting in the queue *)
(* and a free slot: it dispatched nothing and left a timer to poll again.  *)
C18_Witness ==
  \E id \in Ids :
    /\ RateLimited429(id) /\ requests[id].state = "resolved"
    /\ now = fetches[id].endsAt + RECHECK_DELAY
    /\ rateLimitResetTime = fetches[id].reset
    /\ requestQueue # <<>> /\ activeRequests < MAX_CONCURRENT_REQUESTS
    /\ ~isProcessingQueue
    /\ \E t \in Pending : t.kind = "recheck"
    /\ \A t \in Pending : t.kind = "recheck" => t.at > now

(* The annotate operations on container c that wait for their request *)
InFlight(c) == {id \in Unfinished : requests[id].container = c}

(* The transitions of the tag that C19 names, and those made of two of     *)
(* them within one task (an annotate that got a cached value).             *)
TagTransitions ==
  {<<"absent", "processing">>, <<"failed", "processing">>,
   <<"processing", "true">>, <<"processing", "failed">>}
TagTransitionsViaProcessing ==
  {<<"absent", "true">>, <<"absent", "failed">>, <<"failed", "true">>}

(* C19: a container has at most one annotate operation in flight, and has  *)
(* one exactly while its tag is processing; a step starts an annotate      *)
(* operation that waits for a request only on a container whose tag is     *)
(* absent or failed, and the tag is processing when the step ends; the tag *)
(* changes only absent -> processing, failed -> processing,                *)
(* processing -> done, processing -> failed, or by two of these in one     *)
(* task, through processing, when the handle is cached.                    *)
C19_OneAnnotatePerContainer ==
  /\ [](\A c \in Containers :
          /\ Cardinality(InFlight(c)) <= 1
          /\ tag[c] = "processing" <=> InFlight(c) # {})
  /\ [][\A c \in Containers :
          /\ (\E id \in DOMAIN requests' : id \notin Ids /\ requests'[id].container = c)
               => (tag[c] \in {"absent", "failed"} /\ tag'[c] = "processing")
          /\ tag'[c] # tag[c] =>
               \/ <<tag[c], tag'[c]>> \in TagTransitions
               \/ /\ <<tag[c], tag'[c]>> \in TagTransitionsViaProcessing
                  /\ extractUsername(c) \in DOMAIN locationCache]_vars

(* Container 3 waits for its request through a scan; container 2 has gone  *)
(* absent -> processing -> failed on its own request and then, the cache   *)
(* holding a location of its handle by then, failed -> done in a scan.     *)
C19_Witness ==
  /\ tag[3] = "processing" /\ Cardinality(InFlight(3)) = 1
  /\ tag[2] = "true"
  /\ \E id \in Ids : /\ requests[id].container = 2
                     /\ requests[id].state = "resolved"
                     /\ requests[id].value = Null
  /\ ~ScanPending

(* The scan passes the mutation observer has scheduled and that have not   *)
(* run yet: each was scheduled less than 500 ms ago.                       *)
ObserverScans == {t \in Pending : t.kind = "scan" /\ t.id = 0}

(* C20: mutation notifications with added nodes that arrive within 500 ms  *)
(* of one another result in a single scan pass: at no time are two scan    *)
(* passes of the observer pending.                                         *)
C20_ScansDebounced ==
  /\ Cardinality(ObserverScans) <= 1
  /\ \A t \in ObserverScans : CopiesIn(t, timers) = 1

(* This step delivers a response to request id after its timer has fired *)
LateResponse(id) ==
  /\ messages # <<>> /\ Head(messages).type = "locationResponse"
  /\ Head(messages).requestId = id
  /\ requests[id].startedAt # 0 /\ ~TimeoutPending(id) /\ ~requests[id].listening
  /\ messages' = Tail(messages)

(* This step runs the 10 s timer of request id, which a response settled *)
TimerAfterResponse(id) ==
  /\ requests[id].state # "dispatched" /\ requests[id].startedAt # 0
  /\ TimeoutPending(id) /\ ~TimeoutPending(id)'

(* C21: activeRequests equals the number of dispatched requests whose      *)
(* promise has not settled and is never negative; the timer of a request   *)
(* that a response has settled leaves activeRequests as it is; a response  *)
(* delivered after the request has timed out changes neither the cache nor *)
(* activeRequests.                                                         *)
C21_SlotReleasedOnce ==
  /\ [](activeRequests = Cardinality(Unsettled) /\ activeRequests >= 0)
  /\ [][\A id \in Ids :
          /\ TimerAfterResponse(id) => activeRequests' = activeRequests
          /\ LateResponse(id) => /\ locationCache' = locationCache
                                 /\ activeRequests' = activeRequests
                                 /\ requests' = requests]_vars

(* Both the 10 s timer and, after it, a response carrying a location have *)
(* occurred for one request: the request is resolved to null, its slot is  *)
(* free and the cache still holds null.                                    *)
C21_Witness ==
  \E a \in Ids :
    /\ a \in DOMAIN fetches /\ fetches[a].pc = "done"
    /\ fetches[a].location = "France"
    /\ fetches[a].endsAt > requests[a].startedAt + REQUEST_TIMEOUT
    /\ messages = <<>> /\ ~TimeoutPending(a)
    /\ requests[a].state = "resolved" /\ requests[a].value = Null
    /\ HandleOf(a) \in DOMAIN locationCache
    /\ locationCache[HandleOf(a)] = Null
    /\ activeRequests = Cardinality(Unsettled)

(* C22: within one page lifetime no handle is dispatched to the bridge     *)
(* more than once, also when several containers bearing the same handle    *)
(* are scanned before the first lookup for that handle has been answered.  *)
(* (An invariant of no specification: getUserLocation tests the cache      *)
(* only, and the cache is written when the lookup is answered.)            *)
C22_OneDispatchPerHandle ==
  \A i \in Dispatched : \A j \in Dispatched :
    HandleOf(i) = HandleOf(j) => i = j

(* The host page does nothing more that the annotator can notice: its     *)
(* time is over; or it has added all its nodes, the navigation observer    *)
(* has seen the last of its URL changes, and the injected script is gone.  *)
HostStopped ==
  \/ now > StartTime + HostSeconds * Ms(1000)
  \/ /\ Cardinality(present) = NumContainers
     /\ others = MaxOthers
     /\ href = MaxNavigations /\ lastUrl = href
     /\ pageScript = "removed"

(* This step is one of the host page *)
HostStep ==
  \/ present' # present \/ others' # others \/ href' # href
  \/ HostChangesChildList

(* Nothing of the annotator's work is left *)
Quiescent ==
  /\ storageGet = "none"
  /\ requestQueue = <<>> /\ activeRequests = 0
  /\ \A c \in Containers : tag[c] # "processing"
  /\ ~ScanPending

(* The flag spans in the document *)
RECURSIVE FlagsUpTo(_, _)
FlagsUpTo(f, p) ==
  IF p = 0 THEN 0
  ELSE (IF p \in DOMAIN f THEN f[p] ELSE 0) + FlagsUpTo(f, p - 1)
FlagCount(f) == FlagsUpTo(f, NumContainers)

(* This step inserts a flag span *)
FlagInserted == FlagCount(flags') > FlagCount(flags)

(* This step removes the injected script from the document *)
ScriptRemoved == pageScript = "loading" /\ pageScript' = "removed"

(* The scan passes that the two observers schedule in this step *)
ScansScheduled ==
  CopiesIn(Timer("scan", now + SCAN_DEBOUNCE, 0), timers')
    - CopiesIn(Timer("scan", now + SCAN_DEBOUNCE, 0), timers)
NavScansScheduled ==
  CopiesIn(Timer("navscan", now + NAV_SCAN_DELAY, 0), timers')
    - CopiesIn(Timer("navscan", now + NAV_SCAN_DELAY, 0), timers)

(* C23: the annotator quiesces.  A step that is not the host page's        *)
(* schedules a scan pass only if it changes the document: one pass of the  *)
(* observer of document.body if it inserts a flag span, and one of the     *)
(* navigation observer if it inserts a flag span or removes the injected   *)
(* script while the URL has changed since that observer last looked.  Flag *)
(* spans are never removed and there are never more of them than           *)
(* containers, and the script is removed once, so the self-triggered scans *)
(* are finitely many.  Every behaviour reaches, and then stays in, a       *)
(* state with an empty request queue, no active request, no container in   *)
(* state processing and no scan timer pending; and once the host has       *)
(* stopped, no step taken from such a state changes a flag span or a tag.  *)
C23_Quiesces ==
  /\ <>[]Quiescent
  /\ [][~HostStep =>
          /\ ScansScheduled = (IF FlagInserted THEN 1 ELSE 0)
          /\ NavScansScheduled =
               (IF (FlagInserted \/ ScriptRemoved) /\ href # lastUrl
                THEN 1 ELSE 0)
          /\ \A p \in Parents : flags'[p] >= flags[p]
          /\ pageScript = "removed" => pageScript' = "removed"]_vars
  /\ [](FlagCount(flags) <= Cardinality(present))
  /\ [][HostStopped /\ Quiescent =>
          Quiescent' /\ flags' = flags /\ tag' = tag]_vars

(* The host has stopped after a URL change that the navigation observer    *)
(* has seen; the injected script has been removed; a flag was inserted and *)
(* the scan passes that followed have run; another container is failed;    *)
(* nothing of the annotator's work is left.                                *)
C23_Witness ==
  /\ HostStopped /\ Quiescent
  /\ present = Containers
  /\ \E p \in Parents : flags[p] > 0
  /\ \E c \in Containers : tag[c] = "failed"
  /\ \A c \in Containers : tag[c] \in {"true", "failed"}
  /\ href = MaxNavigations /\ lastUrl = href
  /\ pageScript = "removed"
  /\ messages = <<>>

====
